---------------------------- MODULE Spec2Model ----------------------------
(***************************************************************************)
(* Model of scripts/memory-search.py: the chunker, the SQLite index store, *)
(* index_file / do_index_all, do_search and the three front ends.          *)
(*                                                                         *)
(* Strings are sequences of one-character strings, so that split, strip,   *)
(* startswith and join are computed as Python computes them.               *)
(***************************************************************************)
EXTENDS Integers, Sequences, FiniteSets, TLC

VARIABLES
    ct,         \* one activation of chunk_text: its arguments and locals
    rk,         \* one activation of do_search_hybrid: its arguments and locals
    peer,       \* a second process that indexes: its index_file call and its
                \* connection's transaction
    fs,         \* the file system: absolute path -> text (a reference), or Absent
    unreadable, \* the files whose reads raise (permissions)
    extraDirs,  \* EXTRA_SCAN_DIRS, as parsed from the environment
    dbExists,   \* MEMORY_DB.exists()
    db,         \* the committed content of memory.db: tables files and chunks
    tx,         \* the indexing connection's open transaction: its view of the
                \* tables with its uncommitted writes, or NoTx
    pc,         \* where the do_index_all process is
    scan,       \* do_index_all's position in its three loops
    loc,        \* the locals of the running index_file call
    res,        \* do_index_all's indexed / files_indexed
    hist,       \* history: what the current run and call started from
    sr,         \* the last search request and what it read
    budget      \* runs and edits left within the bounds

vars == <<ct, rk, peer, fs, unreadable, extraDirs, dbExists, db, tx, pc, scan, loc, res, hist, sr, budget>>
indexVars == <<rk, peer, fs, unreadable, extraDirs, dbExists, db, tx, pc, scan, loc, res, hist, sr, budget>>

---------------------------------------------------------------------------
(* Bounds of the model                                                     *)

MaxLen == 5         \* longest text handed to chunk_text on its own, in characters
MaxSize == 5        \* largest chunk_size / overlap handed to chunk_text on its own
MaxChunks == 6      \* chunk_text is followed until it has appended this many chunks
MaxBack == 4        \* ... or until start has moved this far below zero
MaxRuns == 2        \* do_index_all invocations in one behaviour
MaxEdits == 1       \* changes to the file system in one behaviour
MaxRows == 4        \* chunk rows of a store handed to do_search_hybrid on its own
MaxLimit == 2       \* largest limit handed to do_search_hybrid on its own

---------------------------------------------------------------------------
(* Program constants                                                       *)

CHUNK_SIZE == 400
CHUNK_OVERLAP == 80

---------------------------------------------------------------------------
(* Strings                                                                 *)

Whitespace == {" ", "\n"}
Letters == {"a", "b"}

Max(a, b) == IF a >= b THEN a ELSE b
Min(a, b) == IF a <= b THEN a ELSE b

\* s[a:b] for a list or a string, with Python's treatment of negative and
\* out-of-range indices
PySlice(s, a, b) ==
    LET n == Len(s)
        norm(i) == IF i < 0 THEN Max(i + n, 0) ELSE Min(i, n)
        lo == norm(a)
        hi == norm(b)
    IN  IF lo < hi THEN SubSeq(s, lo + 1, hi) ELSE <<>>

\* str.split(): the maximal runs of non-whitespace characters, in order.
\* The range lo..hi is cut at a whitespace character near its middle, so
\* that long texts are split without deep recursion.
RECURSIVE SplitRange(_, _, _)
SplitRange(s, lo, hi) ==
    IF lo > hi THEN <<>>
    ELSE LET mid == (lo + hi) \div 2
             after == {j \in mid..hi : s[j] \in Whitespace}
             before == {j \in lo..(mid - 1) : s[j] \in Whitespace}
         IN  IF after # {}
             THEN LET m == CHOOSE j \in after : \A k \in after : j <= k
                  IN  SplitRange(s, lo, m - 1) \o SplitRange(s, m + 1, hi)
             ELSE IF before # {}
             THEN LET m == CHOOSE j \in before : \A k \in before : j <= k
                  IN  SplitRange(s, lo, m - 1) \o SplitRange(s, m + 1, hi)
             ELSE <<SubSeq(s, lo, hi)>>

Split(s) == SplitRange(s, 1, Len(s))

\* sep.join(parts[lo..hi])
RECURSIVE JoinRange(_, _, _, _)
JoinRange(parts, lo, hi, sep) ==
    IF lo > hi THEN <<>>
    ELSE IF lo = hi THEN parts[lo]
    ELSE LET mid == (lo + hi) \div 2
         IN  JoinRange(parts, lo, mid, sep) \o sep \o JoinRange(parts, mid + 1, hi, sep)

JoinFrom(parts, i, sep) == JoinRange(parts, i, Len(parts), sep)

\* " ".join(words)
Join(words) == JoinFrom(words, 1, <<" ">>)

StartsWith(s, prefix) ==
    Len(s) >= Len(prefix) /\ SubSeq(s, 1, Len(prefix)) = prefix

EndsWith(s, suffix) ==
    Len(s) >= Len(suffix) /\ SubSeq(s, Len(s) - Len(suffix) + 1, Len(s)) = suffix

\* int(n / 1.3)
TokensToWords(n) == (n * 10) \div 13

---------------------------------------------------------------------------
(* chunk_text                                                              *)

\* lines 106-112: the locals of chunk_text before its loop
ChunkEntry(text, chunk_size, overlap) ==
    [ words |-> Split(text),
      chunks |-> <<>>,
      words_per_chunk |-> TokensToWords(chunk_size),
      words_overlap |-> TokensToWords(overlap),
      start |-> 0 ]

\* line 113: the loop condition
ChunkCond(c) == c.start < Len(c.words)

\* lines 114-120: one pass through the loop body
ChunkBodyStep(c) ==
    LET end == c.start + c.words_per_chunk
        chunk_words == PySlice(c.words, c.start, end)
    IN  [ c EXCEPT !.chunks = IF chunk_words # <<>>
                              THEN Append(c.chunks, Join(chunk_words))
                              ELSE c.chunks,
                   !.start = end - c.words_overlap ]

\* lines 121-122: the break at the end of the body
ChunkBreak(c) == c.start >= Len(c.words)

\* The whole loop, for the parameters under which it ends
RECURSIVE ChunkLoop(_)
ChunkLoop(c) ==
    IF ~ChunkCond(c) THEN c.chunks
    ELSE LET d == ChunkBodyStep(c)
         IN  IF ChunkBreak(d) THEN d.chunks ELSE ChunkLoop(d)

chunk_text(text, chunk_size, overlap) == ChunkLoop(ChunkEntry(text, chunk_size, overlap))

---------------------------------------------------------------------------
(* Paths. A path is the sequence of its components, each a string.         *)

S_app == <<"a", "p", "p">>
S_agent == <<"a", "g", "e", "n", "t">>
S_memory == <<"m", "e", "m", "o", "r", "y">>
S_data == <<"d", "a", "t", "a">>
S_MEMORY_md == <<"M", "E", "M", "O", "R", "Y", ".", "m", "d">>
S_a_md == <<"a", ".", "m", "d">>
S_n_txt == <<"n", ".", "t", "x", "t">>
S_dot_md == <<".", "m", "d">>

APP_DIR == <<S_app>>
AGENT_DIR == APP_DIR \o <<S_agent>>
MEMORY_DIR == AGENT_DIR \o <<S_memory>>

\* str(path) of an absolute path, and of a relative one
PathStr(p) == <<"/">> \o JoinFrom(p, 1, <<"/">>)
RelStr(p) == JoinFrom(p, 1, <<"/">>)

\* path lies below dir
IsUnder(path, dir) ==
    Len(path) > Len(dir) /\ SubSeq(path, 1, Len(dir)) = dir

\* path.relative_to(root): raises ValueError unless root is a leading part
\* of path
RelativeTo(path, root) ==
    IF Len(path) >= Len(root) /\ SubSeq(path, 1, Len(root)) = root
    THEN [ok |-> TRUE, rel |-> SubSeq(path, Len(root) + 1, Len(path))]
    ELSE [ok |-> FALSE, rel |-> <<>>]

Parent(p) == SubSeq(p, 1, Len(p) - 1)

\* s.replace("\\", "/")
ReplaceBackslash(s) == [i \in 1..Len(s) |-> IF s[i] = "\\" THEN "/" ELSE s[i]]

---------------------------------------------------------------------------
(* The file system the service runs on                                     *)

F_MEMORY == AGENT_DIR \o <<S_MEMORY_md>>          \* /app/agent/MEMORY.md
F_NOTE == MEMORY_DIR \o <<S_a_md>>                \* /app/agent/memory/a.md
F_EXTRA == <<S_data, S_memory, S_a_md>>           \* /data/memory/a.md
F_TXT == <<S_data, S_memory, S_n_txt>>            \* /data/memory/n.txt

Files == {F_MEMORY, F_NOTE, F_EXTRA, F_TXT}
Notes == {F_MEMORY, F_NOTE, F_EXTRA}              \* the files that get edited

Absent == 0

T_EMPTY == <<>>
T_BLANK == <<" ", "\n">>
T_SHORT == <<"a", " ", "b">>
\* one word more than fits one chunk: "b b b ... b"
T_LONG ==
    [i \in 1..(2 * (TokensToWords(CHUNK_SIZE) + 1) - 1) |-> IF i % 2 = 1 THEN "b" ELSE " "]

AllTexts == <<T_EMPTY, T_BLANK, T_SHORT, T_LONG>>
Texts == {AllTexts[i] : i \in 1..Len(AllTexts)}

\* the values of EXTRA_SCAN_DIRS the model runs under (lines 28-31)
ExtraConfigs == { <<>>, << <<S_data, S_memory>> >>, << MEMORY_DIR >> }

\* path.exists() for a file and for a directory (a directory is there when
\* a file is below it)
FileExists(f) == fs[f] # Absent
DirExists(d) == \E f \in Files : fs[f] # Absent /\ IsUnder(f, d)

\* dir.glob("**/*.md")
Glob(d) == {f \in Files : fs[f] # Absent /\ IsUnder(f, d) /\ EndsWith(f[Len(f)], S_dot_md)}

\* hashlib.md5(bytes).hexdigest(): a digest that tells the texts apart
Md5(bytes) == <<"md5", CHOOSE i \in 1..Len(AllTexts) : AllTexts[i] = bytes>>

\* chunk_text(content) with the default arguments (line 163), evaluated
\* once for each text of the model
DefaultChunks == [t \in Texts |-> chunk_text(t, CHUNK_SIZE, CHUNK_OVERLAP)]
\* a chunker that returns the whole content as one chunk, also when it
\* holds no word
ChunkTextWhole(content) == <<content>>

chunk_text_default(content) == DefaultChunks[content]

---------------------------------------------------------------------------
(* String objects.  A file's text and a chunk are long strings (a second   *)
(* chunk takes 308 words), and a variable holds a reference to the string, *)
(* not its characters: the state holds the string's place in Pool, Str     *)
(* gives the characters, Ref the reference.                                *)

RECURSIVE ChunksFrom(_)
ChunksFrom(i) ==
    IF i > Len(AllTexts) THEN <<>> ELSE DefaultChunks[AllTexts[i]] \o ChunksFrom(i + 1)

RECURSIVE AddStrings(_, _, _)
AddStrings(pool, strings, i) ==
    IF i > Len(strings) THEN pool
    ELSE AddStrings(IF \E k \in 1..Len(pool) : pool[k] = strings[i]
                    THEN pool ELSE Append(pool, strings[i]),
                    strings, i + 1)

Pool == AddStrings(AllTexts, ChunksFrom(1), 1)

Str(ref) == Pool[ref]
Ref(string) == CHOOSE k \in 1..Len(Pool) : Pool[k] = string
Refs(strings) == [i \in 1..Len(strings) |-> Ref(strings[i])]
Strs(refs) == [i \in 1..Len(refs) |-> Str(refs[i])]

TextRefs == {Ref(t) : t \in Texts}

---------------------------------------------------------------------------
(* The embedder                                                            *)

CountOf(text, ch) == Cardinality({i \in 1..Len(text) : text[i] = ch})

\* model.encode of one text: a fixed-dimension vector, a function of the text
EmbedOne(text) == <<CountOf(text, "a"), CountOf(text, "b")>>

\* model.encode(texts): one vector per text
Encode(texts) == [i \in 1..Len(texts) |-> EmbedOne(texts[i])]

\* the batches index_file hands over, each encoded once
EncodedBatches == [b \in {DefaultChunks[t] : t \in Texts} |-> Encode(b)]

\* embed_texts(texts) when the model answers
embed_texts(texts) ==
    IF texts \in DOMAIN EncodedBatches THEN EncodedBatches[texts] ELSE Encode(texts)

\* json.dumps(embedding).encode() and json.loads(blob.decode())
JsonDumps(v) == [json |-> v]
JsonLoads(blob) == blob.json

---------------------------------------------------------------------------
(* The store: memory.db with its tables files and chunks                   *)

\* init_db: both tables, empty
EmptyDb == [files |-> {}, chunks |-> {}]

NoTx == [files |-> {}, chunks |-> {}, open |-> FALSE]
None == <<>>

\* what the indexing connection reads and writes: its transaction when one
\* is open, the committed tables otherwise
ConnView(d, t) == IF t.open THEN [files |-> t.files, chunks |-> t.chunks] ELSE d

\* a data-changing statement opens a transaction implicitly
Begin(d, t) == IF t.open THEN t ELSE [files |-> d.files, chunks |-> d.chunks, open |-> TRUE]

\* a reader that would see the writer's open transaction
ReaderViewUncommitted(d, t) == ConnView(d, t)

\* what a second connection reads: the committed tables
ReaderView(d, t) == d

\* SELECT hash FROM files WHERE path = ? ... fetchone()
SelectHash(view, rel_path) ==
    IF \E r \in view.files : r.path = rel_path
    THEN (CHOOSE r \in view.files : r.path = rel_path).hash
    ELSE None

\* DELETE FROM chunks WHERE file_path = ?
DeleteChunks(t, rel_path) ==
    [t EXCEPT !.chunks = {r \in t.chunks : r.file_path # rel_path}]

\* a row numbered from 1
ChunkRowFromOne(rel_path, file_hash, i, chunk, embedding) ==
    [ file_path |-> rel_path, file_hash |-> file_hash, chunk_index |-> i + 1,
      content |-> chunk, embedding |-> [json |-> embedding] ]

\* the row of the i-th pair of enumerate(zip(chunks, embeddings)), i from 0
\* (chunk is the reference of the chunk's string)
ChunkRow(rel_path, file_hash, i, chunk, embedding) ==
    [ file_path |-> rel_path, file_hash |-> file_hash, chunk_index |-> i,
      content |-> chunk, embedding |-> JsonDumps(embedding) ]

\* UNIQUE(file_path, chunk_index)
ChunkKeyTaken(t, row) ==
    \E r \in t.chunks : r.file_path = row.file_path /\ r.chunk_index = row.chunk_index

\* an INSERT that stores nothing
InsertChunkLost(t, row) == t

\* INSERT INTO chunks ...
InsertChunk(t, row) == [t EXCEPT !.chunks = @ \cup {row}]

\* an upsert that records nothing
UpsertFileLost(t, rel_path, file_hash) == t

\* INSERT OR REPLACE INTO files (path, hash, indexed_at)
UpsertFile(t, rel_path, file_hash) ==
    [t EXCEPT !.files = {r \in @ : r.path # rel_path}
                        \cup {[path |-> rel_path, hash |-> file_hash]}]

\* the rows of one document identity
DocChunks(view, rel_path) == {r \in view.chunks : r.file_path = rel_path}
DocFiles(view, rel_path) == {r \in view.files : r.path = rel_path}

---------------------------------------------------------------------------
(* do_index_all: the order in which it visits the documents                *)

LastPhase == Len(extraDirs) + 1

PhaseDir(phase) == IF phase = 1 THEN MEMORY_DIR ELSE extraDirs[phase - 1]

\* line 224: files under AGENT_DIR keep agent-relative paths, others use the
\* parent of the scan directory
ExtraRoot(extra_dir) ==
    IF StartsWith(PathStr(extra_dir), PathStr(AGENT_DIR)) THEN AGENT_DIR ELSE Parent(extra_dir)

PhaseRoot(phase) == IF phase = 1 THEN AGENT_DIR ELSE ExtraRoot(extraDirs[phase - 1])

\* a report that names a file by the last part of its path
ReportNameOfFile(phase, file, root) == file[Len(file)]

\* what do_index_all appends to files_indexed for a file (lines 208, 216, 227)
ReportName(phase, file, root) ==
    IF phase = 0 THEN S_MEMORY_md
    ELSE ReplaceBackslash(RelStr(RelativeTo(file, root).rel))

ScanStart == [phase |-> 0, started |-> FALSE, todo |-> {}]

\* The next thing do_index_all does from a position in its loops: call
\* index_file on a file, or leave the last loop.  Phase 0 is MEMORY.md
\* (lines 205-206), phase 1 the memory directory (212-213), phase k + 1 the
\* k-th extra directory (220-225).  A glob yields its files in any order.
RECURSIVE ScanSteps(_)
ScanSteps(sc) ==
    IF sc.phase = 0
    THEN IF FileExists(F_MEMORY)
         THEN {[ kind |-> "file", file |-> F_MEMORY, root |-> AGENT_DIR, phase |-> 0,
                 next |-> [phase |-> 1, started |-> FALSE, todo |-> {}] ]}
         ELSE ScanSteps([phase |-> 1, started |-> FALSE, todo |-> {}])
    ELSE IF sc.phase > LastPhase
    THEN {[kind |-> "end", next |-> sc]}
    ELSE LET rest == IF sc.started THEN sc.todo
                     ELSE IF DirExists(PhaseDir(sc.phase)) THEN Glob(PhaseDir(sc.phase))
                     ELSE {}
         IN  IF rest = {}
             THEN ScanSteps([phase |-> sc.phase + 1, started |-> FALSE, todo |-> {}])
             ELSE {[ kind |-> "file", file |-> f, root |-> PhaseRoot(sc.phase),
                     phase |-> sc.phase,
                     next |-> [phase |-> sc.phase, started |-> TRUE, todo |-> rest \ {f}] ]
                   : f \in rest}

---------------------------------------------------------------------------
(* do_index_all and index_file, one statement group at a time              *)

NoCall == [pc |-> "none"]

NoRank == [pc |-> "none"]

\* no second process
NoPeer ==
    [ pc |-> "none", calls |-> 0, file |-> <<>>, root |-> <<>>, rel_path |-> <<>>,
      file_hash |-> None, content |-> Absent, chunks |-> <<>>, embeddings |-> <<>>,
      i |-> 0, tx |-> NoTx ]

NoSearch ==
    [ fe |-> "", query |-> <<>>, limit |-> 0, status |-> "none", built |-> FALSE,
      embedded |-> FALSE, view |-> EmptyDb, during |-> FALSE ]

NoLoc ==
    [ file |-> <<>>, root |-> <<>>, name |-> <<>>, file_hash |-> None, rel_path |-> <<>>,
      row |-> None, content |-> Absent, chunks |-> <<>>, embeddings |-> <<>>, i |-> 0,
      ret |-> FALSE, embedded |-> FALSE, outcome |-> "", error |-> "" ]

NoRes == [indexed |-> 0, files |-> <<>>]

NoHist ==
    [ dbAtRun |-> EmptyDb, dbAtFile |-> EmptyDb, embeds |-> 0, clean |-> FALSE,
      rerun |-> FALSE, visited |-> {}, ids |-> {}, replaced |-> <<>> ]

\* no do_index_all is running
Quiet == pc \in {"idle", "done", "raised"}

\* a do_index_all has ended and none is running
BetweenRuns == pc \in {"done", "raised"}

\* path.read_bytes() / path.read_text() raise for a file that is gone or
\* may not be read
CanRead(f) == fs[f] # Absent /\ f \notin unreadable

\* an exception leaves index_file and do_index_all: the connection goes
\* without a commit
Raise(kind) ==
    /\ pc' = "raised"
    /\ loc' = [loc EXCEPT !.error = kind,
                          !.embedded = IF kind = "embed" THEN TRUE ELSE @,
                          !.outcome = IF kind = "embed" THEN "raise" ELSE @]
    /\ tx' = NoTx

\* a store that lets two connections write at once
WriteLockedNever(other) == FALSE

\* SQLite lets one connection write at a time: the first data-changing
\* statement of a transaction (the DELETE of line 170) takes the write lock,
\* which the other connection holds while its transaction is open
WriteLocked(other) == other.open

\* a comparison that never finds the hash unchanged
HashUnchangedNever(row, file_hash) == FALSE

\* line 159: if row and row[0] == file_hash
HashUnchanged(row, file_hash) == row # None /\ row = file_hash

\* lines 196-202: mkdir, connect (creates memory.db), init_db, the counters
StartRun ==
    /\ Quiet
    /\ budget.runs > 0
    /\ budget' = [budget EXCEPT !.runs = @ - 1]
    /\ dbExists' = TRUE
    /\ tx' = NoTx
    /\ pc' = "scan"
    /\ scan' = ScanStart
    /\ loc' = NoLoc
    /\ res' = NoRes
    /\ hist' = [ dbAtRun |-> db, dbAtFile |-> db, embeds |-> 0, clean |-> FALSE,
                 rerun |-> hist.clean, visited |-> {}, ids |-> {}, replaced |-> <<>> ]
    /\ UNCHANGED <<ct, rk, peer, sr, fs, unreadable, extraDirs, db>>

\* lines 205-230: the caller's bookkeeping for the call that returned
\* (207-209, 215-217, 226-228), then on to the next file, or out of the
\* last loop to conn.close() and the result (230-236)
Advance ==
    /\ pc \in {"scan", "returned"}
    /\ res' = IF pc = "returned" /\ loc.ret
              THEN [indexed |-> res.indexed + 1, files |-> Append(res.files, loc.name)]
              ELSE res
    /\ \E st \in ScanSteps(scan) :
          /\ scan' = st.next
          /\ IF st.kind = "end"
             THEN /\ pc' = "done"
                  /\ loc' = NoLoc
                  /\ hist' = [hist EXCEPT !.clean = TRUE]
             ELSE /\ pc' = "index_file"
                  /\ loc' = [NoLoc EXCEPT !.file = st.file, !.root = st.root,
                                          !.name = ReportName(st.phase, st.file, st.root)]
                  /\ hist' = [hist EXCEPT !.dbAtFile = db, !.visited = @ \cup {st.file}]
    /\ tx' = NoTx
    /\ UNCHANGED <<ct, rk, peer, sr, fs, unreadable, extraDirs, dbExists, db, budget>>

\* lines 150-160: hash the file, look its identity up, return when the
\* recorded hash is the same
IF_Hash ==
    /\ pc = "index_file"
    /\ IF ~CanRead(loc.file)
       THEN Raise("read")
       ELSE LET file_hash == Md5(Str(fs[loc.file]))
                rel == RelativeTo(loc.file, loc.root)
                rel_path == RelStr(rel.rel)
                row == SelectHash(ConnView(db, tx), rel_path)
            IN  IF ~rel.ok
                THEN Raise("path")
                ELSE /\ loc' = [loc EXCEPT !.file_hash = file_hash, !.rel_path = rel_path,
                                           !.row = row, !.ret = FALSE]
                     /\ pc' = IF HashUnchanged(row, file_hash) THEN "returned" ELSE "read"
                     /\ tx' = tx
    /\ hist' = IF CanRead(loc.file) /\ RelativeTo(loc.file, loc.root).ok
               THEN [hist EXCEPT !.ids = @ \cup {<<loc.file,
                                    RelStr(RelativeTo(loc.file, loc.root).rel)>>}]
               ELSE hist
    /\ UNCHANGED <<ct, rk, peer, sr, fs, unreadable, extraDirs, dbExists, db, scan, res, budget>>

\* lines 162-166: read the text, chunk it, return when there is no chunk
IF_Read ==
    /\ pc = "read"
    /\ IF ~CanRead(loc.file)
       THEN Raise("read")
       ELSE LET chunks == chunk_text_default(Str(fs[loc.file]))
            IN  /\ loc' = [loc EXCEPT !.content = fs[loc.file], !.chunks = Refs(chunks),
                                      !.ret = FALSE]
                /\ pc' = IF chunks = <<>> THEN "returned" ELSE "embed"
                /\ tx' = tx
    /\ UNCHANGED <<ct, rk, peer, sr, fs, unreadable, extraDirs, dbExists, db, scan, res, hist, budget>>

\* line 168, the embedder answering
IF_Embed ==
    /\ pc = "embed"
    /\ loc' = [loc EXCEPT !.embeddings = embed_texts(Strs(loc.chunks)), !.embedded = TRUE,
                          !.outcome = "ok"]
    /\ hist' = [hist EXCEPT !.embeds = @ + 1]
    /\ pc' = "delete"
    /\ UNCHANGED <<ct, rk, peer, sr, fs, unreadable, extraDirs, dbExists, db, tx, scan, res, budget>>

\* line 168, the embedder raising (the model cannot be loaded, out of memory)
IF_EmbedRaise ==
    /\ pc = "embed"
    /\ Raise("embed")
    /\ hist' = [hist EXCEPT !.embeds = @ + 1]
    /\ UNCHANGED <<ct, rk, peer, sr, fs, unreadable, extraDirs, dbExists, db, scan, res, budget>>

\* line 168, an embedder that breaks its interface: one vector too few
IF_EmbedShort ==
    /\ pc = "embed"
    /\ loc' = [loc EXCEPT !.embeddings = SubSeq(embed_texts(Strs(loc.chunks)), 1,
                                                 Len(loc.chunks) - 1),
                          !.embedded = TRUE, !.outcome = "short"]
    /\ hist' = [hist EXCEPT !.embeds = @ + 1]
    /\ pc' = "delete"
    /\ UNCHANGED <<ct, rk, peer, sr, fs, unreadable, extraDirs, dbExists, db, tx, scan, res, budget>>

\* line 170
IF_Delete ==
    /\ pc = "delete"
    /\ ~WriteLocked(peer.tx)
    /\ tx' = DeleteChunks(Begin(db, tx), loc.rel_path)
    /\ loc' = [loc EXCEPT !.i = 0]
    /\ pc' = "insert"
    /\ UNCHANGED <<ct, rk, peer, sr, fs, unreadable, extraDirs, dbExists, db, scan, res, hist, budget>>

\* line 170 when the other process holds the write lock for longer than the
\* connection's timeout: sqlite3.OperationalError, database is locked
IF_DeleteBusy ==
    /\ pc = "delete"
    /\ WriteLocked(peer.tx)
    /\ Raise("locked")
    /\ UNCHANGED <<ct, rk, peer, sr, fs, unreadable, extraDirs, dbExists, db, scan, res, hist,
                   budget>>

\* zip(chunks, embeddings) stops at the shorter of the two
ZipLen(chunks, embeddings) == Min(Len(chunks), Len(embeddings))

\* lines 172-180: one pass of the insert loop
IF_Insert ==
    /\ pc = "insert"
    /\ loc.i < ZipLen(loc.chunks, loc.embeddings)
    /\ LET row == ChunkRow(loc.rel_path, loc.file_hash, loc.i,
                           loc.chunks[loc.i + 1], loc.embeddings[loc.i + 1])
       IN  IF ChunkKeyTaken(Begin(db, tx), row)
           THEN Raise("store")
           ELSE /\ tx' = InsertChunk(Begin(db, tx), row)
                /\ loc' = [loc EXCEPT !.i = @ + 1]
                /\ pc' = "insert"
    /\ UNCHANGED <<ct, rk, peer, sr, fs, unreadable, extraDirs, dbExists, db, scan, res, hist, budget>>

\* lines 182-188, after the last pass of the insert loop
IF_Upsert ==
    /\ pc = "insert"
    /\ loc.i >= ZipLen(loc.chunks, loc.embeddings)
    /\ tx' = UpsertFile(Begin(db, tx), loc.rel_path, loc.file_hash)
    /\ pc' = "commit"
    /\ UNCHANGED <<ct, rk, peer, sr, fs, unreadable, extraDirs, dbExists, db, scan, loc, res, hist, budget>>

\* lines 190-191: commit, return True
IF_Commit ==
    /\ pc = "commit"
    /\ db' = ConnView(db, tx)
    /\ tx' = NoTx
    /\ loc' = [loc EXCEPT !.ret = TRUE]
    /\ pc' = "returned"
    /\ hist' = [hist EXCEPT !.replaced = Append(@, loc.rel_path)]
    /\ UNCHANGED <<ct, rk, peer, sr, fs, unreadable, extraDirs, dbExists, scan, res, budget>>

---------------------------------------------------------------------------
(* A second process running do_index_all (say the index command beside the *)
(* HTTP service): its index_file calls, on its own connection               *)

PeerIdle(calls) == [NoPeer EXCEPT !.pc = "idle", !.calls = calls]

\* the files a do_index_all visits, each with its relative_root
IndexTargets ==
    (IF FileExists(F_MEMORY) THEN {<<F_MEMORY, AGENT_DIR>>} ELSE {})
    \cup UNION { {<<f, PhaseRoot(p)>> : f \in Glob(PhaseDir(p))} : p \in 1..LastPhase }

\* the exception ends the process; its connection goes without a commit
PeerRaise == peer' = [peer EXCEPT !.pc = "raised", !.tx = NoTx]

PeerFrame ==
    UNCHANGED <<ct, rk, sr, fs, unreadable, extraDirs, db, tx, pc, scan, loc, res, hist,
                budget>>

\* lines 198-199 on the first call, then a call of index_file (206, 214, 225)
P_Call ==
    /\ peer.pc = "idle"
    /\ peer.calls > 0
    /\ \E t \in IndexTargets :
          peer' = [PeerIdle(peer.calls - 1) EXCEPT !.pc = "hash", !.file = t[1], !.root = t[2]]
    /\ dbExists' = TRUE
    /\ PeerFrame

\* lines 150-160
P_Hash ==
    /\ peer.pc = "hash"
    /\ LET rel == RelativeTo(peer.file, peer.root)
           rel_path == RelStr(rel.rel)
       IN  IF ~CanRead(peer.file) \/ ~rel.ok
           THEN PeerRaise
           ELSE LET file_hash == Md5(Str(fs[peer.file]))
                    row == SelectHash(ConnView(db, peer.tx), rel_path)
                IN  peer' = [peer EXCEPT !.file_hash = file_hash, !.rel_path = rel_path,
                                         !.pc = IF HashUnchanged(row, file_hash)
                                                THEN "idle" ELSE "read"]
    /\ UNCHANGED dbExists
    /\ PeerFrame

\* lines 162-168
P_Read ==
    /\ peer.pc = "read"
    /\ IF ~CanRead(peer.file)
       THEN PeerRaise
       ELSE LET chunks == chunk_text_default(Str(fs[peer.file]))
            IN  peer' = [peer EXCEPT !.content = fs[peer.file], !.chunks = Refs(chunks),
                                     !.embeddings = IF chunks = <<>> THEN <<>>
                                                    ELSE embed_texts(chunks),
                                     !.pc = IF chunks = <<>> THEN "idle" ELSE "delete"]
    /\ UNCHANGED dbExists
    /\ PeerFrame

\* line 170
P_Delete ==
    /\ peer.pc = "delete"
    /\ ~WriteLocked(tx)
    /\ peer' = [peer EXCEPT !.tx = DeleteChunks(Begin(db, peer.tx), peer.rel_path),
                            !.i = 0, !.pc = "insert"]
    /\ UNCHANGED dbExists
    /\ PeerFrame

\* line 170 when the write lock is not had in time
P_DeleteBusy ==
    /\ peer.pc = "delete"
    /\ WriteLocked(tx)
    /\ PeerRaise
    /\ UNCHANGED dbExists
    /\ PeerFrame

\* lines 172-180: one pass of the insert loop
P_Insert ==
    /\ peer.pc = "insert"
    /\ peer.i < ZipLen(peer.chunks, peer.embeddings)
    /\ LET row == ChunkRow(peer.rel_path, peer.file_hash, peer.i,
                           peer.chunks[peer.i + 1], peer.embeddings[peer.i + 1])
       IN  IF ChunkKeyTaken(peer.tx, row)
           THEN PeerRaise
           ELSE peer' = [peer EXCEPT !.tx = InsertChunk(peer.tx, row), !.i = @ + 1]
    /\ UNCHANGED dbExists
    /\ PeerFrame

\* lines 182-188
P_Upsert ==
    /\ peer.pc = "insert"
    /\ peer.i >= ZipLen(peer.chunks, peer.embeddings)
    /\ peer' = [peer EXCEPT !.tx = UpsertFile(peer.tx, peer.rel_path, peer.file_hash),
                            !.pc = "commit"]
    /\ UNCHANGED dbExists
    /\ PeerFrame

\* lines 190-191
P_Commit ==
    /\ peer.pc = "commit"
    /\ db' = ConnView(db, peer.tx)
    /\ peer' = [peer EXCEPT !.tx = NoTx, !.pc = "idle"]
    /\ UNCHANGED <<ct, rk, sr, fs, unreadable, extraDirs, dbExists, tx, pc, scan, loc, res,
                   hist, budget>>

---------------------------------------------------------------------------
(* The environment: notes are written, removed and protected between runs  *)

\* the notes in a place do_index_all looks at under the configuration
Watched ==
    {f \in Notes : f = F_MEMORY \/ IsUnder(f, MEMORY_DIR)
                    \/ \E k \in 1..Len(extraDirs) : IsUnder(f, extraDirs[k])}

EditFile ==
    /\ BetweenRuns
    /\ budget.edits > 0
    /\ \E f \in Watched, c \in TextRefs \cup {Absent} :
          /\ c # fs[f]
          /\ fs' = [fs EXCEPT ![f] = c]
    /\ budget' = [budget EXCEPT !.edits = @ - 1]
    /\ hist' = [hist EXCEPT !.clean = FALSE]
    /\ UNCHANGED <<ct, rk, peer, sr, unreadable, extraDirs, dbExists, db, tx, pc, scan, loc, res>>

\* another process writes or removes the file that index_file has hashed
\* (line 150) and has not yet read (line 162)
EditHashedFile ==
    /\ pc = "read"
    /\ budget.edits > 0
    /\ \E c \in TextRefs \cup {Absent} :
          /\ c # fs[loc.file]
          /\ fs' = [fs EXCEPT ![loc.file] = c]
    /\ budget' = [budget EXCEPT !.edits = @ - 1]
    /\ hist' = [hist EXCEPT !.clean = FALSE]
    /\ UNCHANGED <<ct, rk, peer, sr, unreadable, extraDirs, dbExists, db, tx, pc, scan, loc, res>>

ProtectFile ==
    /\ BetweenRuns
    /\ budget.edits > 0
    /\ \E f \in Watched :
          /\ fs[f] # Absent
          /\ f \notin unreadable
          /\ unreadable' = unreadable \cup {f}
    /\ budget' = [budget EXCEPT !.edits = @ - 1]
    /\ hist' = [hist EXCEPT !.clean = FALSE]
    /\ UNCHANGED <<ct, rk, peer, sr, fs, extraDirs, dbExists, db, tx, pc, scan, loc, res>>

---------------------------------------------------------------------------
(* Search: do_search and the three front ends                              *)

\* s.strip()
Strip(s) ==
    LET solid == {i \in 1..Len(s) : s[i] \notin Whitespace}
    IN  IF solid = {} THEN <<>>
        ELSE SubSeq(s, CHOOSE i \in solid : \A j \in solid : i <= j,
                       CHOOSE i \in solid : \A j \in solid : i >= j)

Q_EMPTY == <<>>
Q_BLANK == <<" ">>
Q_B == <<"b">>
Queries == {Q_EMPTY, Q_BLANK, Q_B}

S_limit == <<"-", "-", "l", "i", "m", "i", "t">>
S_2 == <<"2">>

\* sys.argv[2:] of "memory-search.py search ..." (at least one argument)
CliArgLists == { <<Q_EMPTY>>, <<Q_BLANK>>, <<Q_B>>, <<S_limit, S_2>>, <<Q_B, S_limit, S_2>> }

DigitValue(ch) ==
    CASE ch = "0" -> 0 [] ch = "1" -> 1 [] ch = "2" -> 2 [] ch = "3" -> 3 [] ch = "4" -> 4
      [] ch = "5" -> 5 [] ch = "6" -> 6 [] ch = "7" -> 7 [] ch = "8" -> 8 [] ch = "9" -> 9
      [] OTHER -> -1

\* int(s) for a string of digits; anything else raises ValueError
RECURSIVE ParseInt(_, _, _)
ParseInt(s, i, acc) ==
    IF i > Len(s) THEN [ok |-> Len(s) > 0, value |-> acc]
    ELSE IF DigitValue(s[i]) < 0 THEN [ok |-> FALSE, value |-> 0]
    ELSE ParseInt(s, i + 1, 10 * acc + DigitValue(s[i]))

\* lines 499-511: the option loop of the search command, i counting from 0
RECURSIVE CliParse(_, _, _, _)
CliParse(args, i, query_parts, limit) ==
    IF ~(i < Len(args))
    THEN [ok |-> TRUE, query |-> Join(query_parts), limit |-> limit]
    ELSE IF args[i + 1] = S_limit /\ i + 1 < Len(args)
    THEN LET n == ParseInt(args[i + 2], 1, 0)
         IN  IF n.ok THEN CliParse(args, i + 2, query_parts, n.value)
             ELSE [ok |-> FALSE, query |-> <<>>, limit |-> limit]
    ELSE CliParse(args, i + 1, Append(query_parts, args[i + 1]), limit)

DefaultLimit == 5

\* a do_search that embeds the query before it looks for memory.db
DoSearchEmbedFirst(fe, query, limit) ==
    [ fe |-> fe, query |-> query, limit |-> limit,
      status |-> "ok",
      built |-> dbExists,
      embedded |-> TRUE,
      view |-> IF dbExists THEN db ELSE EmptyDb,
      during |-> dbExists /\ tx.open ]

\* do_search (lines 241-257) as reached through do_search_hybrid: without
\* memory.db it returns at once; otherwise it embeds the query and reads
\* the chunk rows on a connection of its own.  view is what that connection
\* reads at that moment, during whether the indexing connection then has a
\* transaction open.
DoSearch(fe, query, limit) ==
    [ fe |-> fe, query |-> query, limit |-> limit,
      status |-> "ok",
      built |-> dbExists,
      embedded |-> dbExists,
      view |-> IF dbExists THEN ReaderView(db, tx) ELSE EmptyDb,
      during |-> dbExists /\ tx.open ]

Rejected(fe, query) ==
    [NoSearch EXCEPT !.fe = fe, !.query = query, !.status = "rejected"]

\* the rows the SELECT of do_search yields (lines 248-257)
SearchRows(view) ==
    {<<r.file_path, Str(r.content), JsonLoads(r.embedding)>> :
        r \in {c \in view.chunks : c.embedding # None}}

SearchFrame ==
    UNCHANGED <<ct, rk, peer, fs, unreadable, extraDirs, dbExists, db, tx, pc, scan, loc, res, hist, budget>>

\* GET /search (lines 317-330)
HttpSearch ==
    /\ SearchFrame
    /\ \E q \in Queries :
          sr' = IF Strip(q) = <<>> THEN Rejected("http", q)
                ELSE DoSearch("http", q, DefaultLimit)

\* the memory_search tool (lines 412-419)
McpSearch ==
    /\ SearchFrame
    /\ \E query \in Queries :
          sr' = IF query = <<>> THEN Rejected("mcp", query)
                ELSE DoSearch("mcp", query, DefaultLimit)

\* the search command (lines 493-513)
CliSearch ==
    /\ SearchFrame
    /\ \E args \in CliArgLists :
          LET parsed == CliParse(args, 0, <<>>, DefaultLimit)
          IN  sr' = IF ~parsed.ok
                    THEN [NoSearch EXCEPT !.fe = "cli", !.status = "error"]
                    ELSE DoSearch("cli", parsed.query, parsed.limit)

---------------------------------------------------------------------------
(* Ranking: cosine_similarity, do_search, do_search_hybrid, search_to_json *)

\* str.lower() on the characters of the model
LowerChar(ch) == CASE ch = "A" -> "a" [] ch = "B" -> "b" [] OTHER -> ch
Lower(s) == [i \in 1..Len(s) |-> LowerChar(s[i])]

\* term in content_lower: the term occurs as a substring
Contains(content, term) ==
    \E i \in 0..(Len(content) - Len(term)) :
        SubSeq(content, i + 1, i + Len(term)) = term

\* Scores are counted in hundredths.  The vectors of the model have whole
\* norms and cosines that are whole numbers of hundredths; on them the
\* floats of the code are ordered and tied as these exact values are.
ScoreScale == 100

\* keyword_matches * 0.1 (line 275), in hundredths
KeywordBoost == 10

\* sum(x * y for x, y in zip(a, b))
RECURSIVE Dot(_, _, _)
Dot(a, b, i) ==
    IF i > Min(Len(a), Len(b)) THEN 0 ELSE a[i] * b[i] + Dot(a, b, i + 1)

\* math.sqrt on a perfect square
Sqrt(n) == CHOOSE r \in 0..n : r * r = n

\* lines 134-145
cosine_similarity(a, b) ==
    LET dot_product == Dot(a, b, 1)
        norm_a == Sqrt(Dot(a, a, 1))
        norm_b == Sqrt(Dot(b, b, 1))
    IN  IF norm_a = 0 \/ norm_b = 0 THEN 0
        ELSE (dot_product * ScoreScale) \div (norm_a * norm_b)

\* an order of sort(key = score, reverse = True) that returns equal scores
\* in the opposite of their original order
RECURSIVE SortReverseUnstable(_)
SortReverseUnstable(results) ==
    IF results = <<>> THEN <<>>
    ELSE LET x == Head(results)
             rest == SortReverseUnstable(Tail(results))
         IN  SelectSeq(rest, LAMBDA y : y.score >= x.score) \o <<x>>
             \o SelectSeq(rest, LAMBDA y : y.score < x.score)

\* results.sort(key=lambda x: x[2], reverse=True): descending by score, and
\* list.sort is stable also with reverse=True, so results of equal score
\* keep their original order
RECURSIVE SortReverse(_)
SortReverse(results) ==
    IF results = <<>> THEN <<>>
    ELSE LET x == Head(results)
             rest == SortReverse(Tail(results))
         IN  SelectSeq(rest, LAMBDA y : y.score > x.score) \o <<x>>
             \o SelectSeq(rest, LAMBDA y : y.score <= x.score)

\* a cut that returns one result more than asked for
TruncateOneMore(results, limit) == PySlice(results, 0, limit + 1)

\* results[:limit]
Truncate(results, limit) == PySlice(results, 0, limit)

\* lines 248-257: one result per row of the cursor, a row being
\* <<file_path, content, embedding>>.  row is the row's place in the cursor;
\* it tells apart two results that are equal as Python tuples.
Scored(cursor, query_embedding) ==
    [ i \in 1..Len(cursor) |->
        [ file_path |-> cursor[i][1], content |-> cursor[i][2],
          score |-> cosine_similarity(query_embedding, cursor[i][3]), row |-> i ] ]

\* do_search (lines 239-262); exists is MEMORY_DB.exists(), cursor the rows
\* of the SELECT in the order the cursor yields them
do_search(exists, cursor, query, limit) ==
    IF ~exists THEN <<>>
    ELSE LET query_embedding == embed_texts(<<query>>)[1]
         IN  Truncate(SortReverse(Scored(cursor, query_embedding)), limit)

\* set(query.lower().split())
QueryTerms(query) == LET w == Split(Lower(query)) IN {w[i] : i \in 1..Len(w)}

\* a count in which every word of the query counts, repeated or not
KeywordMatchesPerWord(query, content) ==
    LET w == Split(Lower(query))
    IN  Cardinality({i \in 1..Len(w) : Contains(Lower(content), w[i])})

\* sum(1 for term in query_terms if term in content_lower)
KeywordMatches(query, content) ==
    Cardinality({term \in QueryTerms(query) : Contains(Lower(content), term)})

\* a boost that lowers the score of a candidate for every matching term
BoostedDown(vector_results, query) ==
    [ i \in 1..Len(vector_results) |->
        [ vector_results[i] EXCEPT
            !.score = @ - Cardinality({term \in QueryTerms(query) :
                              Contains(Lower(vector_results[i].content), term)}) * KeywordBoost ] ]

\* lines 271-277
Boosted(vector_results, query) ==
    [ i \in 1..Len(vector_results) |->
        [ vector_results[i] EXCEPT
            !.score = @ + KeywordMatches(query, vector_results[i].content) * KeywordBoost ] ]

\* do_search_hybrid (lines 265-280)
do_search_hybrid(exists, cursor, query, limit) ==
    LET vector_results == do_search(exists, cursor, query, limit * 2)
    IN  Truncate(SortReverse(Boosted(vector_results, query)), limit)

\* search_to_json (lines 283-289)
search_to_json(exists, cursor, query, limit) ==
    LET results == do_search_hybrid(exists, cursor, query, limit)
    IN  [ i \in 1..Len(results) |->
            [ file |-> results[i].file_path, content |-> results[i].content,
              score |-> results[i].score ] ]

\* the orders in which a cursor may yield a set of rows
Orders(rows) ==
    {o \in [1..Cardinality(rows) -> rows] : \A i, j \in DOMAIN o : o[i] = o[j] => i = j}

\* what a front end's search may return, from what it read
SearchAnswers(s) ==
    {search_to_json(s.built, o, s.query, s.limit) : o \in Orders(SearchRows(s.view))}

\* do_search_hybrid one statement group at a time
RankCall(exists, cursor, query, limit) ==
    [ pc |-> "search", exists |-> exists, cursor |-> cursor, query |-> query,
      limit |-> limit, vector_results |-> <<>>, boosted_results |-> <<>>,
      results |-> <<>> ]

\* line 267
RankVector ==
    /\ rk.pc = "search"
    /\ rk' = [rk EXCEPT !.pc = "boost",
                        !.vector_results =
                            do_search(rk.exists, rk.cursor, rk.query, rk.limit * 2)]
    /\ UNCHANGED <<ct, peer, fs, unreadable, extraDirs, dbExists, db, tx, pc, scan, loc, res,
                   hist, sr, budget>>

\* lines 269-277
RankBoost ==
    /\ rk.pc = "boost"
    /\ rk' = [rk EXCEPT !.pc = "sort",
                        !.boosted_results = Boosted(rk.vector_results, rk.query)]
    /\ UNCHANGED <<ct, peer, fs, unreadable, extraDirs, dbExists, db, tx, pc, scan, loc, res,
                   hist, sr, budget>>

\* lines 279-280
RankSort ==
    /\ rk.pc = "sort"
    /\ rk' = [rk EXCEPT !.pc = "done",
                        !.results = Truncate(SortReverse(rk.boosted_results), rk.limit)]
    /\ UNCHANGED <<ct, peer, fs, unreadable, extraDirs, dbExists, db, tx, pc, scan, loc, res,
                   hist, sr, budget>>

---------------------------------------------------------------------------
(* The service                                                             *)

InitFs ==
    {f \in [Files -> {Absent, Ref(T_SHORT), Ref(T_LONG)}] : f[F_TXT] = Ref(T_SHORT)}

InitIndex ==
    /\ fs \in InitFs
    /\ unreadable = {}
    /\ extraDirs \in ExtraConfigs
    /\ dbExists = FALSE
    /\ db = EmptyDb
    /\ tx = NoTx
    /\ pc = "idle"
    /\ scan = ScanStart
    /\ loc = NoLoc
    /\ res = NoRes
    /\ hist = NoHist
    /\ sr = NoSearch
    /\ budget = [runs |-> MaxRuns, edits |-> MaxEdits]

Init == InitIndex /\ ct = NoCall /\ rk = NoRank /\ peer = NoPeer

Next ==
    \/ StartRun \/ Advance
    \/ IF_Hash \/ IF_Read \/ IF_Embed \/ IF_EmbedRaise
    \/ IF_Delete \/ IF_Insert \/ IF_Upsert \/ IF_Commit
    \/ EditFile \/ ProtectFile

Spec == Init /\ [][Next]_vars

\* The service with searches arriving while it indexes
InitSearch ==
    /\ fs \in {f \in InitFs : f[F_MEMORY] = Absent /\ f[F_EXTRA] = Absent /\ f[F_NOTE] # Absent}
    /\ unreadable = {}
    /\ extraDirs = <<>>
    /\ dbExists = FALSE
    /\ db = EmptyDb
    /\ tx = NoTx
    /\ pc = "idle"
    /\ scan = ScanStart
    /\ loc = NoLoc
    /\ res = NoRes
    /\ hist = NoHist
    /\ sr = NoSearch
    /\ budget = [runs |-> MaxRuns, edits |-> MaxEdits]
    /\ ct = NoCall
    /\ rk = NoRank
    /\ peer = NoPeer

NextSearch == Next \/ HttpSearch \/ McpSearch \/ CliSearch

SpecSearch == InitSearch /\ [][NextSearch]_vars

\* The service with an embedder that may also return a batch that does not
\* match the chunks it was given
NextFault == Next \/ IF_EmbedShort

SpecFault == Init /\ [][NextFault]_vars

\* The service with files changing while index_file works on them
NextRace == Next \/ EditHashedFile

SpecRace == Init /\ [][NextRace]_vars

\* Two processes indexing the same store, each on its own connection
MaxPeerCalls == 1

InitTwo ==
    /\ fs \in {f \in InitFs : f[F_MEMORY] = Absent /\ f[F_EXTRA] = Absent /\ f[F_NOTE] # Absent}
    /\ unreadable = {}
    /\ extraDirs = <<>>
    /\ dbExists = FALSE
    /\ db = EmptyDb
    /\ tx = NoTx
    /\ pc = "idle"
    /\ scan = ScanStart
    /\ loc = NoLoc
    /\ res = NoRes
    /\ hist = NoHist
    /\ sr = NoSearch
    /\ budget = [runs |-> MaxRuns, edits |-> MaxEdits]
    /\ ct = NoCall
    /\ rk = NoRank
    /\ peer = PeerIdle(MaxPeerCalls)

NextTwo ==
    \/ Next
    \/ IF_DeleteBusy
    \/ P_Call \/ P_Hash \/ P_Read
    \/ P_Delete \/ P_DeleteBusy \/ P_Insert \/ P_Upsert \/ P_Commit

SpecTwo == InitTwo /\ [][NextTwo]_vars

---------------------------------------------------------------------------
(* do_search_hybrid on its own, over stores and queries of the bounds      *)

R_b == <<"b">>
R_bb == <<"b", "b">>
R_B == <<"B">>
R_aaabbbb == <<"a", "a", "a", "b", "b", "b", "b">>
R_aaaabbb == <<"a", "a", "a", "a", "b", "b", "b">>

\* the chunk texts of the stores
RankContents == {R_b, R_bb, R_B, R_aaabbbb, R_aaaabbb}

\* the queries: one term, two terms, a term given twice, an upper-case term
RankQueries ==
    { R_b, <<"b", " ", "b", "b">>, <<"b", " ", "b">>, R_B,
      <<"a", "a", "a", " ", "b", "b", "b", "b">> }

RECURSIVE CursorsUpTo(_)
CursorsUpTo(n) ==
    IF n = 0 THEN {<<>>}
    ELSE LET shorter == CursorsUpTo(n - 1)
         IN  shorter \cup {Append(c, <<S_MEMORY_md, t, EmbedOne(t)>>) :
                             c \in shorter, t \in RankContents}

InitRank ==
    /\ rk \in {RankCall(TRUE, c, q, l) :
                 c \in CursorsUpTo(MaxRows), q \in RankQueries, l \in 0..MaxLimit}
             \cup {RankCall(FALSE, <<>>, q, l) : q \in RankQueries, l \in 0..MaxLimit}
    /\ ct = NoCall
    /\ peer = NoPeer
    /\ fs = [f \in Files |-> Absent]
    /\ unreadable = {}
    /\ extraDirs = <<>>
    /\ dbExists = FALSE
    /\ db = EmptyDb
    /\ tx = NoTx
    /\ pc = "idle"
    /\ scan = ScanStart
    /\ loc = NoLoc
    /\ res = NoRes
    /\ hist = NoHist
    /\ sr = NoSearch
    /\ budget = [runs |-> 0, edits |-> 0]

NextRank == RankVector \/ RankBoost \/ RankSort

SpecRank == InitRank /\ [][NextRank]_vars

---------------------------------------------------------------------------
(* chunk_text on its own, one loop step at a time                          *)

RECURSIVE StringsUpTo(_)
StringsUpTo(n) ==
    IF n = 0 THEN {<<>>}
    ELSE LET shorter == StringsUpTo(n - 1)
         IN  shorter \cup {Append(s, ch) : s \in shorter, ch \in Letters \cup {" "}}

CtCall(text, chunk_size, overlap) ==
    [ pc |-> "test", text |-> text, chunk_size |-> chunk_size, overlap |-> overlap,
      loc |-> ChunkEntry(text, chunk_size, overlap) ]

\* the activation has left the range the model follows
CtBeyond == ct.pc \in {"test", "body"} /\
            (Len(ct.loc.chunks) >= MaxChunks \/ ct.loc.start <= -MaxBack)

InitChunk ==
    /\ ct \in {CtCall(t, s, o) : t \in StringsUpTo(MaxLen), s \in 0..MaxSize, o \in 0..MaxSize}
    /\ rk = NoRank
    /\ peer = NoPeer
    /\ fs = [f \in Files |-> Absent]
    /\ unreadable = {}
    /\ extraDirs = <<>>
    /\ dbExists = FALSE
    /\ db = EmptyDb
    /\ tx = NoTx
    /\ pc = "idle"
    /\ scan = ScanStart
    /\ loc = NoLoc
    /\ res = NoRes
    /\ hist = NoHist
    /\ sr = NoSearch
    /\ budget = [runs |-> 0, edits |-> 0]

ChunkTest ==
    /\ ct.pc = "test"
    /\ ~CtBeyond
    /\ ct' = [ct EXCEPT !.pc = IF ChunkCond(ct.loc) THEN "body" ELSE "done"]
    /\ UNCHANGED indexVars

ChunkBody ==
    /\ ct.pc = "body"
    /\ ~CtBeyond
    /\ LET d == ChunkBodyStep(ct.loc)
       IN  ct' = [ct EXCEPT !.loc = d, !.pc = IF ChunkBreak(d) THEN "done" ELSE "test"]
    /\ UNCHANGED indexVars

NextChunk == ChunkTest \/ ChunkBody

\* A running loop keeps running: both steps are weakly fair
SpecChunk == InitChunk /\ [][NextChunk]_vars /\ WF_vars(ChunkTest) /\ WF_vars(ChunkBody)

---------------------------------------------------------------------------
(* Claims about chunk_text (checked under SpecChunk)                       *)

\* The words of the chunks with the overlap region of every chunk after the
\* first removed: the first words_overlap words of chunks 2, 3, ...
RECURSIVE DropOverlaps(_, _, _)
DropOverlaps(chunks, i, words_overlap) ==
    IF i > Len(chunks) THEN <<>>
    ELSE LET w == Split(chunks[i])
         IN  (IF i = 1 THEN w ELSE SubSeq(w, words_overlap + 1, Len(w)))
             \o DropOverlaps(chunks, i + 1, words_overlap)

CtReturned == ct.pc = "done"
CtValidPair == ct.pc # "none" /\ 0 <= ct.overlap /\ ct.overlap < ct.chunk_size
CtReconstructs ==
    DropOverlaps(ct.loc.chunks, 1, ct.loc.words_overlap) = Split(ct.text)

\* C4: for every text and every pair with 0 <= overlap < size, chunk_text
\* returns chunks which, with the overlaps removed, give back exactly the
\* word sequence of the text.
C4_ChunksReconstructText ==
    CtValidPair => <>((CtReturned /\ CtReconstructs) \/ CtBeyond)

\* What does hold for C4: whenever chunk_text returns for such a pair, the
\* chunks reconstruct the text.
C4_ReturnedChunksReconstruct ==
    (CtReturned /\ CtValidPair) => CtReconstructs

\* C5: chunk_text terminates for every text and every pair (size, overlap),
\* also when the step words_per_chunk - words_overlap is zero or negative.
C5_ChunkTextTerminates == <>(CtReturned \/ CtBeyond)

\* The loop of chunk_text is running with a step that is not positive
C5_NonPositiveStepRunning ==
    /\ ct.pc = "body"
    /\ ct.loc.words_per_chunk - ct.loc.words_overlap <= 0
    /\ Len(ct.loc.chunks) >= 2

---------------------------------------------------------------------------
(* Claims about index_file and do_index_all                                *)

\* the running or just finished index_file call
CallFile == loc.file
CallId == loc.rel_path
CallText == Str(fs[loc.file])
CallReturned == pc = "returned"

\* the hash recorded for the call's identity when the call began
RecordedBefore == SelectHash(hist.dbAtFile, CallId)

\* C1: when the document's content hash equals the hash recorded for its
\* identity, index_file makes no embedder call, leaves the store as it was
\* (chunk rows and files row) and reports the document as not indexed.
C1_UnchangedHashIsSkipped ==
    (CallReturned /\ RecordedBefore = Md5(CallText)) =>
        /\ ~loc.ret
        /\ ~loc.embedded
        /\ db = hist.dbAtFile
        /\ ~tx.open

C1_SkippedIndexedDocument ==
    /\ CallReturned
    /\ RecordedBefore = Md5(CallText)
    /\ DocChunks(db, CallId) # {}

\* the chunk rows index_file is to leave for a text under an identity
ExpectedRows(rel_path, text) ==
    LET chunks == DefaultChunks[text]
        vectors == EncodedBatches[chunks]
    IN  { [ file_path |-> rel_path, file_hash |-> Md5(text), chunk_index |-> i - 1,
            content |-> Ref(chunks[i]), embedding |-> [json |-> vectors[i]] ]
          : i \in 1..Len(chunks) }

\* C2: when the content hash differs from the recorded one (or none is
\* recorded) and the new content has k >= 1 chunks, then after index_file
\* returns the identity holds exactly the k chunks of the new content, with
\* indices 0..k-1, no chunk of an earlier version, and the new hash.
C2_ChangedDocumentIsReplaced ==
    (/\ CallReturned
     /\ RecordedBefore # Md5(CallText)
     /\ DefaultChunks[CallText] # <<>>) =>
        /\ loc.ret
        /\ DocChunks(db, CallId) = ExpectedRows(CallId, CallText)
        /\ {r.chunk_index : r \in DocChunks(db, CallId)}
             = 0..(Len(DefaultChunks[CallText]) - 1)
        /\ DocFiles(db, CallId) = {[path |-> CallId, hash |-> Md5(CallText)]}

\* a document of two chunks was replaced by a version of one chunk
C2_ShorterVersionReplacedLonger ==
    /\ CallReturned
    /\ RecordedBefore # Md5(CallText)
    /\ Cardinality(DocChunks(hist.dbAtFile, CallId)) = 2
    /\ Len(DefaultChunks[CallText]) = 1

\* C6: when do_index_all has completed and runs again with no file created,
\* changed or removed in between, the second run returns count 0 and no
\* files, makes no embedder call and leaves the store unchanged.
C6_SecondRunIsNoOp ==
    (pc = "done" /\ hist.rerun) =>
        /\ res.indexed = 0
        /\ res.files = <<>>
        /\ hist.embeds = 0
        /\ db = hist.dbAtRun

\* C7: two distinct files of the scanned set are stored under distinct
\* identities.
C7_DistinctFilesDistinctIdentities ==
    \A a \in hist.ids, b \in hist.ids : a[1] # b[1] => a[2] # b[2]

\* the files do_index_all visits (lines 205-228)
ScanSet ==
    (IF FileExists(F_MEMORY) THEN {F_MEMORY} ELSE {})
    \cup Glob(MEMORY_DIR)
    \cup UNION {Glob(extraDirs[k]) : k \in 1..Len(extraDirs)}

RunEnded == pc \in {"done", "raised"}

\* C8: when a document cannot be read, that document alone is skipped: the
\* run still visits every other document and returns its result.
C8_UnreadableDocumentIsSkipped ==
    (RunEnded /\ \E f \in ScanSet : ~CanRead(f)) =>
        /\ pc = "done"
        /\ \A f \in ScanSet : CanRead(f) => f \in hist.visited

\* C9: when the embedder fails for a document's batch, or returns a batch
\* that does not match it, the document's store entry stays as it was, and
\* no chunk set smaller than the chunker's is committed under the new hash.
C9_EmbedderFaultLeavesEntry ==
    /\ (pc \in {"returned", "raised"} /\ loc.outcome \in {"raise", "short"}) =>
           /\ DocChunks(db, CallId) = DocChunks(hist.dbAtFile, CallId)
           /\ DocFiles(db, CallId) = DocFiles(hist.dbAtFile, CallId)
    /\ (CallReturned /\ loc.ret) =>
           Cardinality(DocChunks(db, CallId)) = Len(loc.chunks)

---------------------------------------------------------------------------
(* Claims about search                                                     *)

Identities(view) == {r.path : r \in view.files} \cup {r.file_path : r \in view.chunks}

\* the rows of an identity are all the chunks of one text under that text's
\* hash
WholeVersion(view, id) ==
    \E t \in Texts :
        /\ DocChunks(view, id) = ExpectedRows(id, t)
        /\ DocFiles(view, id) = {[path |-> id, hash |-> Md5(t)]}

\* C3: a search running while index_file replaces a document's chunks sees,
\* for every document, the complete old version or the complete new one:
\* never old chunks under the new hash, a mix, or a partly inserted set.
C3_SearchSeesWholeVersions ==
    (sr.status = "ok") =>
        \A id \in Identities(sr.view) : WholeVersion(sr.view, id)

\* a search read the store while a replacement of an indexed document was
\* written and not yet committed, and saw the version that is being replaced
C3_SearchDuringReplacement ==
    /\ sr.status = "ok"
    /\ sr.during
    /\ pc = "commit"
    /\ DocChunks(sr.view, CallId) # {}
    /\ sr.view = db
    /\ DocChunks(ConnView(db, tx), CallId) # DocChunks(db, CallId)

\* C10: on every front end a search with an empty or whitespace-only query
\* is rejected without a call to the embedder.
C10_BlankQueryNeverEmbedded ==
    (sr.status # "none" /\ Strip(sr.query) = <<>>) => ~sr.embedded

\* C11: a search issued when the store has never been built (memory.db does
\* not exist) returns the empty list without an error, makes no embedder
\* call and neither creates nor changes the store.
C11_NeverBuiltSearchIsEmpty ==
    [][(sr' # sr /\ sr'.status # "rejected" /\ ~dbExists) =>
          /\ sr'.status = "ok"
          /\ SearchAnswers(sr') = {<<>>}
          /\ ~sr'.embedded
          /\ dbExists' = dbExists
          /\ db' = db
          /\ tx' = tx]_vars

\* a search for "b" was answered while memory.db did not exist
C11_SearchedBeforeFirstIndex ==
    /\ sr.status = "ok"
    /\ sr.query = Q_B
    /\ ~sr.built
    /\ ~dbExists

---------------------------------------------------------------------------
(* Claims about ranking (checked under SpecRank)                           *)

RankReturned == rk.pc = "done"

\* the words of the lower-cased query, each once
RankDistinctTerms ==
    LET w == Split(Lower(rk.query)) IN {w[i] : i \in 1..Len(w)}

\* how many of them occur in the lower-cased content of a result
RankTermsIn(r) ==
    Cardinality({t \in RankDistinctTerms :
                    \E i \in 1..Len(r.content) : \E j \in i..Len(r.content) :
                        SubSeq(Lower(r.content), i, j) = t})

\* the vector similarity of a result's row to the query
RankSimilarity(r) == cosine_similarity(EmbedOne(rk.query), rk.cursor[r.row][3])

\* C12: the score of every result of do_search_hybrid is its vector
\* similarity to the query plus 0.1 for every distinct lower-case query term
\* that occurs in its lower-cased content.
C12_ScoreIsSimilarityPlusBoost ==
    RankReturned =>
        \A i \in 1..Len(rk.results) :
            rk.results[i].score
              = RankSimilarity(rk.results[i]) + KeywordBoost * RankTermsIn(rk.results[i])

\* a result matched a term that the query gives twice, and was boosted once
C12_RepeatedTermBoostedOnce ==
    /\ RankReturned
    /\ Len(Split(rk.query)) = 2
    /\ Cardinality(RankDistinctTerms) = 1
    /\ \E i \in 1..Len(rk.results) :
          /\ RankTermsIn(rk.results[i]) = 1
          /\ RankSimilarity(rk.results[i]) > 0
          /\ rk.results[i].score = RankSimilarity(rk.results[i]) + KeywordBoost

\* C13: for every query and every limit >= 1, do_search_hybrid returns
\* exactly min(limit, number of stored chunks with a vector) results, in
\* order of non-increasing combined score.
C13_CountAndOrder ==
    (RankReturned /\ rk.limit >= 1) =>
        /\ Len(rk.results) = Min(rk.limit, Len(rk.cursor))
        /\ \A i, j \in 1..Len(rk.results) :
              i < j => rk.results[i].score >= rk.results[j].score

\* a store of more chunks than the limit was searched and the results were
\* cut to the limit, the first scoring above the second
C13_CutToLimit ==
    /\ RankReturned
    /\ rk.limit = 2
    /\ Len(rk.cursor) > 2
    /\ Len(rk.results) = 2
    /\ rk.results[1].score > rk.results[2].score

\* the place of a candidate (known by its row) in a list of results, 0 when
\* it is not there
RankPlace(results, row) ==
    IF \E i \in 1..Len(results) : results[i].row = row
    THEN CHOOSE i \in 1..Len(results) : results[i].row = row
    ELSE 0

\* C14: of two candidates of the boosted pool with equal vector similarity,
\* the one with strictly more distinct matching query terms is never ranked
\* below the other, and is never cut by the limit while the other is
\* returned.
C14_MoreMatchesNeverBelow ==
    RankReturned =>
        \A i, j \in 1..Len(rk.vector_results) :
            LET a == rk.vector_results[i]
                b == rk.vector_results[j]
            IN  (a.score = b.score /\ RankTermsIn(a) > RankTermsIn(b)
                 /\ RankPlace(rk.results, b.row) # 0) =>
                    /\ RankPlace(rk.results, a.row) # 0
                    /\ RankPlace(rk.results, a.row) < RankPlace(rk.results, b.row)

\* two candidates of equal vector similarity: the one do_search ranked second
\* matches more terms and is returned, the other is cut by the limit
C14_MoreMatchesOvertakes ==
    /\ RankReturned
    /\ Len(rk.vector_results) >= 2
    /\ LET a == rk.vector_results[1]
           b == rk.vector_results[2]
       IN  /\ a.score = b.score
           /\ RankTermsIn(b) > RankTermsIn(a)
           /\ RankPlace(rk.results, b.row) = 1
           /\ RankPlace(rk.results, a.row) = 0

\* C15: two results of equal combined score stand in the final result in the
\* order in which do_search returned them.
C15_TiesKeepVectorOrder ==
    RankReturned =>
        \A i, j \in 1..Len(rk.results) :
            (i < j /\ rk.results[i].score = rk.results[j].score) =>
                RankPlace(rk.vector_results, rk.results[i].row)
                  < RankPlace(rk.vector_results, rk.results[j].row)

\* two chunks of different content and equal combined score were returned,
\* the one that the cursor and do_search gave first standing first
C15_TiedResultsReturned ==
    /\ RankReturned
    /\ Len(rk.results) = 2
    /\ rk.results[1].score = rk.results[2].score
    /\ rk.results[1].content = R_bb
    /\ rk.results[2].content = R_b
    /\ rk.results[1].row < rk.results[2].row

---------------------------------------------------------------------------
(* Further claims about index_file and do_index_all                        *)

\* C16: when the hash differs from the recorded one but the content has no
\* word (zero chunks), index_file changes nothing in the store: a new
\* identity gets no record, a known identity keeps its chunks and its
\* recorded hash; no embedder call is made and the document is reported as
\* not indexed.
C16_ZeroChunksChangeNothing ==
    (/\ CallReturned
     /\ RecordedBefore # Md5(CallText)
     /\ DefaultChunks[CallText] = <<>>) =>
        /\ ~loc.ret
        /\ ~loc.embedded
        /\ db = hist.dbAtFile
        /\ ~tx.open

\* an indexed document was emptied and met again: its old chunks are still
\* stored under the old hash
C16_EmptiedDocumentKeepsChunks ==
    /\ CallReturned
    /\ DefaultChunks[CallText] = <<>>
    /\ RecordedBefore # None
    /\ RecordedBefore # Md5(CallText)
    /\ DocChunks(db, CallId) # {}
    /\ \A r \in DocChunks(db, CallId) : r.file_hash = RecordedBefore

\* the identity under which do_index_all stores the note of the memory
\* directory
NoteId == RelStr(RelativeTo(F_NOTE, AGENT_DIR).rel)

\* C17: a document identity that has been committed stays indexed through
\* every later index run and search, also when its source file is gone: the
\* set of identities in the store never shrinks and each has at least one
\* chunk.
C17_IdentitiesNeverShrink ==
    [][/\ Identities(db) \subseteq Identities(db')
       /\ \A id \in Identities(db') :
             DocChunks(db', id) # {} /\ DocFiles(db', id) # {}]_vars

\* an index run has completed after the note's file was removed, and the
\* note is still indexed
C17_RemovedFileStaysIndexed ==
    /\ pc = "done"
    /\ hist.clean
    /\ fs[F_NOTE] = Absent
    /\ DocChunks(db, NoteId) # {}
    /\ DocFiles(db, NoteId) # {}

\* C18: in the result of a completed do_index_all the count is the length
\* of the files list, and the list names a document once for each time its
\* store entry was replaced in that run (hist.replaced, in order): skipped
\* documents are absent, reprocessed ones present.  The list writes an
\* identity with forward slashes.
C18_ResultListsReplacedDocuments ==
    (pc = "done") =>
        /\ res.indexed = Len(res.files)
        /\ Len(res.files) = Len(hist.replaced)
        /\ \A i \in 1..Len(res.files) :
              res.files[i] = ReplaceBackslash(hist.replaced[i])

\* a run visited two documents, replaced the entry of one and skipped the
\* other
C18_OneReplacedOneSkipped ==
    /\ pc = "done"
    /\ Cardinality(hist.visited) = 2
    /\ res.indexed = 1
    /\ Len(hist.replaced) = 1

\* C20: the hash stored with every chunk that index_file commits, and in
\* the document's files row, is the hash of the content from which the
\* chunks were made, also when another process changes the file while
\* index_file runs.
C20_StoredHashIsHashOfChunkedContent ==
    (CallReturned /\ loc.ret) =>
        /\ \A r \in DocChunks(db, CallId) : r.file_hash = Md5(Str(loc.content))
        /\ \A r \in DocFiles(db, CallId) : r.hash = Md5(Str(loc.content))

\* index_file committed chunks of a text under the hash of another text
C20_ChunksUnderOtherHash ==
    /\ CallReturned
    /\ loc.ret
    /\ loc.file_hash # Md5(Str(loc.content))
    /\ DocChunks(db, CallId) # {}

---------------------------------------------------------------------------
(* Claims about two index runs at once                                     *)

\* the rows of an identity are all the chunks of one text, all under one
\* hash, the hash the files entry records
OneRunVersion(view, id) ==
    \E t \in Texts, u \in Texts :
        /\ DocChunks(view, id) = {[r EXCEPT !.file_hash = Md5(u)] : r \in ExpectedRows(id, t)}
        /\ DocFiles(view, id) = {[path |-> id, hash |-> Md5(u)]}

\* C19: when two index runs in separate processes both reprocess the same
\* document identity, their rewrites do not overlap: never are the delete,
\* insert and upsert steps of both under way at once, and the committed rows
\* of every identity are always the whole chunk set written by a single run.
C19_RewritesDoNotOverlap ==
    /\ ~(tx.open /\ peer.tx.open /\ loc.rel_path = peer.rel_path)
    /\ \A id \in Identities(db) : OneRunVersion(db, id)

\* one run has deleted and inserted the first chunk of a version while the
\* other run, holding another version of the same identity, is at its delete
C19_RewriteMeetsRewrite ==
    /\ tx.open
    /\ pc = "insert"
    /\ loc.i >= 1
    /\ peer.pc = "delete"
    /\ peer.rel_path = loc.rel_path
    /\ peer.content # loc.content

---------------------------------------------------------------------------
(* Claims about the committed store                                        *)

\* C21: in every committed state of the store reached by index runs, all
\* chunk rows of a document identity carry the same file_hash, that hash is
\* the hash of the identity's files row, every chunk row has a files row for
\* its identity, and the chunk indices of an identity are pairwise distinct.
C21_CommittedStoreIsConsistent ==
    /\ \A r \in db.chunks : \A q \in db.chunks :
          r.file_path = q.file_path =>
             /\ r.file_hash = q.file_hash
             /\ (r.chunk_index = q.chunk_index => r = q)
    /\ \A r \in db.chunks :
          /\ DocFiles(db, r.file_path) # {}
          /\ \A f \in DocFiles(db, r.file_path) : f.hash = r.file_hash
    /\ \A f \in db.files : \A g \in db.files : f.path = g.path => f = g

\* a run has committed a version of several chunks over an earlier version
\* of the same identity, recorded under another hash
C21_SeveralChunksOverOlderVersion ==
    /\ ~tx.open
    /\ \E id \in Identities(db) :
          /\ Cardinality(DocChunks(db, id)) >= 2
          /\ DocFiles(hist.dbAtRun, id) # {}
          /\ DocFiles(db, id) # DocFiles(hist.dbAtRun, id)

=============================================================================
